---------------------------- MODULE Spec2Model ----------------------------
(***************************************************************************)
(* Model of the police-system Express server (src/server/routes.js): the   *)
(* route handlers of registerRoutes, the session they read and write, and  *)
(* the resource store they call.  The store (./db-config.js), the schemas  *)
(* (../shared/schema.js) and the session middleware are collaborators      *)
(* whose code is outside the examined sources; they are modelled from the  *)
(* written specification and named so in the definitions below.            *)
(*                                                                         *)
(* JavaScript strings that the code takes apart (route parameters given to *)
(* parseInt, fileType given to toLowerCase) are sequences of one-character *)
(* strings; all other strings are atoms.                                   *)
(***************************************************************************)
EXTENDS Integers, Sequences, FiniteSets, TLC

VARIABLES
    users,        \* user collection of the store: id -> user record
    nextUserId,   \* next identifier the store assigns to a user
    resetTokens,  \* password-reset tokens of the store: token -> userId
    session,      \* req.session of the one client: userId and cached user
    geofiles,     \* geofile collection of the store: id -> geofile record
    nextGeofileId,
    vehicles,     \* police vehicle collection of the store: id -> vehicle record
    nextVehicleId,
    records,      \* collection of the resource type in focus: id -> record
    nextRecordId,
    focus,        \* the resource type whose routes the requests go to
    reports,      \* Reports component: the reports state, a list
    editingReport,\* Reports component: the report being edited, or null
    reg,          \* the requests handled step by step: client -> position and body
    request,      \* the request handled last
    response,     \* the response sent to it
    storeCalls    \* the store calls made while handling it, in order

vars ==
    <<users, nextUserId, resetTokens, session, geofiles, nextGeofileId,
      vehicles, nextVehicleId, records, nextRecordId, focus, reports,
      editingReport, reg, request, response, storeCalls>>

authVars == <<users, nextUserId, resetTokens, session>>

geofileVars == <<geofiles, nextGeofileId>>

vehicleVars == <<vehicles, nextVehicleId>>

recordVars == <<records, nextRecordId, focus>>

componentVars == <<reports, editingReport>>

\* what the last request, its response and its store calls are
lastVars == <<request, response, storeCalls>>

----------------------------------------------------------------------------
(* Bounds of the model *)

\* lastLogin is a version counter: the number of updateLastLogin calls on the user
MaxLogins == 1
\* highest identifier the store assigns to a user
MaxUserId == 3
\* highest identifier the store assigns to a geofile
MaxGeofileId == 2
\* highest downloadCount a geofile reaches
MaxDownloads == 2
\* highest lastAccessedAt version a geofile reaches
MaxAccess == 1
\* highest identifier the store assigns to a police vehicle
MaxVehicleId == 2
\* number of clients whose requests are handled concurrently
NumClients == 2

----------------------------------------------------------------------------
(* Values *)

Usernames == {"admin", "bob"}
Emails == {"admin@police.gov", "bob@police.gov"}
Passwords == {"admin123", "pw1"}
Tokens == {"t1"}

\* what the store's lookups return when nothing matches (null)
Null == [id |-> 0]

\* "no user"
NoUser == Null

\* the session before login and after destroy
NoSession == [userId |-> 0, user |-> NoUser]

\* the user seedDevAdmin creates
AdminUser ==
    [id |-> 1, username |-> "admin", email |-> "admin@police.gov",
     password |-> "admin123", role |-> "admin", isActive |-> TRUE,
     lastLogin |-> 0]

Max(a, b) == IF a >= b THEN a ELSE b

\* f restricted to the arguments in S
Restrict(f, S) == [x \in S |-> f[x]]

\* object spread {...a, ...b}: the fields of b win
Spread(a, b) ==
    [k \in (DOMAIN a) \cup (DOMAIN b) |-> IF k \in DOMAIN b THEN b[k] ELSE a[k]]

Min(S) == CHOOSE x \in S : \A y \in S : x <= y

\* the fields k of a request body that are present
Has(body, k) == k \in DOMAIN body

\* res.status(s).json(b)
Reply(s, b) == [status |-> s, body |-> b]

Message(m) == [message |-> m]

\* the fields of the common entity shape that no update changes
ImmutableFields == {"id", "createdAt"}

\* the part of an update that the store merges
Mutable(data) == Restrict(data, DOMAIN data \ ImmutableFields)

\* the creation timestamp the store assigns (one value: the clock is not modelled)
CreationTime == "created"

----------------------------------------------------------------------------
(* The schemas of ../shared/schema.js, as the written specification gives  *)
(* them: required fields present, values of the declared sets.             *)

loginSchema_ok(body) == Has(body, "username") /\ Has(body, "password")

registerSchema_ok(body) ==
    /\ Has(body, "username") /\ Has(body, "email")
    /\ Has(body, "password") /\ Has(body, "confirmPassword")
    /\ body.password = body.confirmPassword

forgotPasswordSchema_ok(body) == Has(body, "username")

resetPasswordSchema_ok(body) == Has(body, "token") /\ Has(body, "password")

updateProfileSchema_ok(body) == Has(body, "email") => body.email \in Emails

\* the parsed profile update: the declared fields only
updateProfileSchema_parse(body) == Restrict(body, DOMAIN body \cap {"email"})

----------------------------------------------------------------------------
(* The user operations of the store (storage of ./db-config.js), as the    *)
(* written specification gives them.                                       *)

getUser(us, id) == IF id \in DOMAIN us THEN us[id] ELSE NoUser

getUserByUsername(us, username) ==
    LET m == {i \in DOMAIN us : us[i].username = username}
    IN  IF m = {} THEN NoUser ELSE us[Min(m)]

getUserByEmail(us, email) ==
    LET m == {i \in DOMAIN us : us[i].email = email}
    IN  IF m = {} THEN NoUser ELSE us[Min(m)]

\* create: assigns the identifier, persists, returns the stored form
NewUser(id, data) ==
    [id |-> id, username |-> data.username, email |-> data.email,
     password |-> data.password, role |-> "user", isActive |-> TRUE,
     lastLogin |-> 0]

createUser(us, id, data) == us @@ (id :> NewUser(id, data))

updateLastLogin(us, id) ==
    IF id \in DOMAIN us THEN [us EXCEPT ![id].lastLogin = @ + 1] ELSE us

\* update: merges the submitted fields; the caller sees a throw when id is absent
updateUser(us, id, updates) == [us EXCEPT ![id] = Spread(@, updates)]

updateUserPassword(us, id, password) == [us EXCEPT ![id].password = password]

deleteUser(us, id) == Restrict(us, DOMAIN us \ {id})

getAllUsers(us) == us

----------------------------------------------------------------------------
(* parseInt of a route parameter: leading blanks skipped, then the longest *)
(* run of decimal digits; NaN when there is none.  The parameters of the   *)
(* model carry no sign, so NaN is told from every parsed number.           *)

NaN == -1

IsDigit(c) == c \in {"0", "1", "2", "3", "4", "5", "6", "7", "8", "9"}

DigitValue(c) ==
    CASE c = "0" -> 0 [] c = "1" -> 1 [] c = "2" -> 2 [] c = "3" -> 3
      [] c = "4" -> 4 [] c = "5" -> 5 [] c = "6" -> 6 [] c = "7" -> 7
      [] c = "8" -> 8 [] c = "9" -> 9

RECURSIVE TrimLeft(_)
TrimLeft(s) == IF s # <<>> /\ Head(s) = " " THEN TrimLeft(Tail(s)) ELSE s

RECURSIVE LeadingNumber(_, _)
LeadingNumber(s, acc) ==
    IF s # <<>> /\ IsDigit(Head(s))
    THEN LeadingNumber(Tail(s), 10 * acc + DigitValue(Head(s)))
    ELSE acc

parseInt(s) ==
    LET t == TrimLeft(s)
    IN  IF t = <<>> \/ ~IsDigit(Head(t)) THEN NaN ELSE LeadingNumber(t, 0)

----------------------------------------------------------------------------
(* Middleware *)

\* a middleware that refuses with a body that has no message
requireAuthWithoutMessage(sess) ==
    IF sess.userId = 0
    THEN Reply(401, [error |-> "Authentication required"])
    ELSE Reply(0, Message("next"))

\* requireAuth: the response it sends, or "next" when it lets the request through
requireAuth(sess) ==
    IF sess.userId = 0 THEN Reply(401, Message("Authentication required"))
    ELSE Reply(0, Message("next"))

\* requireAdmin
requireAdmin(sess) ==
    IF sess.user = NoUser \/ sess.user.role # "admin"
    THEN Reply(403, Message("Admin access required"))
    ELSE Reply(0, Message("next"))

----------------------------------------------------------------------------
(* Helpers of the authentication routes *)

\* a response helper that forgets to strip: the user as stored
withPasswordLeftIn(user) == user

\* const { password: _, ...userWithoutPassword } = user
withoutPassword(user) == Restrict(user, DOMAIN user \ {"password"})

\* the password check of the login route
isValidPassword(user, password) ==
    \/ user.password = password
    \/ (user.username = "admin" /\ password = "admin123")

\* req.session?.userId || 1
sessionUserIdOrDefault(sess) == IF sess.userId # 0 THEN sess.userId ELSE 1

\* a guard that compares the parsed number with the string "1": never true
isProtectedUserIdAsString(userId) == FALSE

\* the identifier DELETE /api/users/:id refuses to delete
isProtectedUserId(userId) == userId = 1

\* what one handler does: the response, the store calls, the store and session after
Outcome(resp, calls, us, toks, sess) ==
    [resp |-> resp, calls |-> calls, users |-> us, tokens |-> toks, session |-> sess]

\* the handler's outcome becomes the next state
Handle(req, o) ==
    /\ request' = req
    /\ response' = o.resp
    /\ storeCalls' = o.calls
    /\ users' = o.users
    /\ resetTokens' = o.tokens
    /\ session' = o.session
    /\ UNCHANGED <<geofileVars, vehicleVars, recordVars, reg,
                   componentVars>>

----------------------------------------------------------------------------
(* The authentication, profile and user-management routes.  Each is a      *)
(* function of the store and session it finds and of the request; the      *)
(* result is the Outcome of the whole handler.                             *)

\* a login that fills the session before it compares the password
loginSessionBeforePassword(us, toks, sess, body) ==
    IF ~loginSchema_ok(body)
    THEN Outcome(Reply(400, Message("Invalid input")), <<>>, us, toks, sess)
    ELSE LET user == getUserByUsername(us, body.username) IN
         IF user = NoUser
         THEN Outcome(Reply(401, Message("Invalid credentials")),
                     <<"getUserByUsername">>, us, toks, sess)
         ELSE IF ~isValidPassword(user, body.password)
         THEN Outcome(Reply(401, Message("Invalid credentials")),
                     <<"getUserByUsername">>, us, toks,
                     [userId |-> user.id, user |-> user])
         ELSE IF ~user.isActive
         THEN Outcome(Reply(403, Message("Account is deactivated")),
                     <<"getUserByUsername">>, us, toks, sess)
         ELSE Outcome(Reply(200, [user |-> withoutPassword(user)]),
                      <<"getUserByUsername", "updateLastLogin">>,
                      updateLastLogin(us, user.id), toks,
                      [userId |-> user.id, user |-> user])

\* POST /api/auth/login
login(us, toks, sess, body) ==
    IF ~loginSchema_ok(body)
    THEN Outcome(Reply(400, Message("Invalid input")), <<>>, us, toks, sess)
    ELSE LET user == getUserByUsername(us, body.username) IN
         IF user = NoUser
         THEN Outcome(Reply(401, Message("Invalid credentials")),
                     <<"getUserByUsername">>, us, toks, sess)
         ELSE IF ~isValidPassword(user, body.password)
         THEN Outcome(Reply(401, Message("Invalid credentials")),
                     <<"getUserByUsername">>, us, toks, sess)
         ELSE IF ~user.isActive
         THEN Outcome(Reply(403, Message("Account is deactivated")),
                     <<"getUserByUsername">>, us, toks, sess)
         ELSE Outcome(Reply(200, [user |-> withoutPassword(user)]),
                      <<"getUserByUsername", "updateLastLogin">>,
                      updateLastLogin(us, user.id), toks,
                      [userId |-> user.id, user |-> user])

\* POST /api/auth/register, the whole handler; id is the identifier the store
\* assigns if it creates the user
register(us, toks, sess, body, id) ==
    IF ~registerSchema_ok(body)
    THEN Outcome(Reply(400, Message("Invalid input")), <<>>, us, toks, sess)
    ELSE IF getUserByUsername(us, body.username) # NoUser
    THEN Outcome(Reply(409, Message("Username already exists")),
                <<"getUserByUsername">>, us, toks, sess)
    ELSE IF getUserByEmail(us, body.email) # NoUser
    THEN Outcome(Reply(409, Message("Email already exists")),
                <<"getUserByUsername", "getUserByEmail">>, us, toks, sess)
    ELSE Outcome(Reply(201, [user |-> withoutPassword(NewUser(id, body))]),
                 <<"getUserByUsername", "getUserByEmail", "createUser">>,
                 createUser(us, id, body), toks, sess)

\* POST /api/auth/forgot-password; token is what randomBytes(32) gives
forgotPassword(us, toks, sess, body, token) ==
    IF ~forgotPasswordSchema_ok(body)
    THEN Outcome(Reply(400, Message("Invalid input")), <<>>, us, toks, sess)
    ELSE LET user == getUserByUsername(us, body.username) IN
         IF user = NoUser
         THEN Outcome(Reply(200, Message("If the username exists, a reset token has been generated")),
                     <<"getUserByUsername">>, us, toks, sess)
         ELSE Outcome(Reply(200, [message |-> "Password reset token generated",
                                  token |-> token]),
                      <<"getUserByUsername", "createPasswordResetToken">>,
                      us, toks @@ (token :> user.id), sess)

\* POST /api/auth/reset-password, the whole handler
resetPassword(us, toks, sess, body) ==
    IF ~resetPasswordSchema_ok(body)
    THEN Outcome(Reply(400, Message("Invalid input")), <<>>, us, toks, sess)
    ELSE IF body.token \notin DOMAIN toks
    THEN Outcome(Reply(400, Message("Invalid or expired token")),
                <<"getPasswordResetToken">>, us, toks, sess)
    ELSE IF toks[body.token] \notin DOMAIN us
    THEN \* updateUserPassword throws: caught
         Outcome(Reply(400, Message("Invalid input")),
                <<"getPasswordResetToken", "updateUserPassword">>, us, toks, sess)
    ELSE Outcome(Reply(200, Message("Password updated successfully")),
                 <<"getPasswordResetToken", "updateUserPassword",
                   "deletePasswordResetToken">>,
                 updateUserPassword(us, toks[body.token], body.password),
                 Restrict(toks, DOMAIN toks \ {body.token}), sess)

\* a logout that answers without destroying the session
logoutKeepsSession(us, toks, sess, err) ==
    IF err
    THEN Outcome(Reply(500, Message("Could not log out")), <<>>, us, toks, sess)
    ELSE Outcome(Reply(200, Message("Logged out successfully")), <<>>, us, toks, sess)

\* POST /api/auth/logout; err is what session.destroy reports
logout(us, toks, sess, err) ==
    IF err
    THEN Outcome(Reply(500, Message("Could not log out")), <<>>, us, toks, sess)
    ELSE Outcome(Reply(200, Message("Logged out successfully")), <<>>,
                 us, toks, NoSession)

\* GET /api/auth/me
me(us, toks, sess) ==
    LET user == getUser(us, sessionUserIdOrDefault(sess)) IN
    IF user = NoUser
    THEN Outcome(Reply(404, Message("User not found")), <<"getUser">>, us, toks, sess)
    ELSE Outcome(Reply(200, [user |-> withoutPassword(user)]), <<"getUser">>,
                us, toks, sess)

\* PUT /api/profile
putProfile(us, toks, sess, body) ==
    IF ~updateProfileSchema_ok(body)
    THEN Outcome(Reply(400, Message("Invalid input")), <<>>, us, toks, sess)
    ELSE LET userId == sessionUserIdOrDefault(sess) IN
         IF userId \notin DOMAIN us
         THEN \* updateUser throws, or the destructuring of its result does
              Outcome(Reply(400, Message("Invalid input")), <<"updateUser">>,
                     us, toks, sess)
         ELSE LET after == updateUser(us, userId, updateProfileSchema_parse(body)) IN
              Outcome(Reply(200, [user |-> withoutPassword(after[userId])]),
                      <<"updateUser">>, after, toks, sess)

\* GET /api/users
getUsers(us, toks, sess) ==
    LET all == getAllUsers(us) IN
    Outcome(Reply(200, [users |-> [i \in DOMAIN all |-> withoutPassword(all[i])]]),
           <<"getAllUsers">>, us, toks, sess)

\* DELETE /api/users/:id
deleteUserRoute(us, toks, sess, id) ==
    LET userId == parseInt(id) IN
    IF isProtectedUserId(userId)
    THEN Outcome(Reply(400, Message("Cannot delete admin account")), <<>>,
                us, toks, sess)
    ELSE IF userId \notin DOMAIN us
    THEN Outcome(Reply(404, Message("User not found")), <<"deleteUser">>,
                us, toks, sess)
    ELSE Outcome(Reply(200, Message("User deleted successfully")), <<"deleteUser">>,
                 deleteUser(us, userId), toks, sess)

----------------------------------------------------------------------------
(* Requests of the model *)

LoginBodies ==
    {[username |-> u, password |-> p] : u \in Usernames, p \in Passwords}
      \cup {[username |-> "admin"]}

RegisterBodies ==
    {[username |-> u, email |-> e, password |-> p, confirmPassword |-> p] :
        u \in Usernames, e \in Emails, p \in {"pw1"}}
      \cup {[username |-> "bob", email |-> "bob@police.gov",
             password |-> "pw1", confirmPassword |-> "admin123"],
            [username |-> "bob", password |-> "pw1", confirmPassword |-> "pw1"]}

ForgotBodies == {[username |-> u] : u \in Usernames} \cup {<<>>}

ResetBodies ==
    {[token |-> t, password |-> p] : t \in Tokens, p \in Passwords}
      \cup {[token |-> "t1"]}

ProfileBodies ==
    {[email |-> e] : e \in Emails \cup {"not-an-email"}} \cup {<<>>}

\* route parameters :id, as typed into the URL
IdParams == {<<"1">>, <<"2">>, <<"3">>, <<" ", "1">>, <<"1", "x">>, <<"x">>}

----------------------------------------------------------------------------
(* Initial state: the store holds the seeded admin, and possibly a second  *)
(* user, active or deactivated; nobody is logged in.                       *)

BobUser(active) ==
    [id |-> 2, username |-> "bob", email |-> "bob@police.gov",
     password |-> "pw1", role |-> "user", isActive |-> active, lastLogin |-> 0]

InitUsers ==
    {(1 :> AdminUser)} \cup {(1 :> AdminUser) @@ (2 :> BobUser(a)) : a \in BOOLEAN}

NoRequest == [route |-> "none"]

\* the store but for its users, the session and the requests after construction
InitOther ==
    /\ nextUserId = Max(2, Cardinality(DOMAIN users) + 1)
    /\ resetTokens = <<>>
    /\ session = NoSession
    /\ geofiles = <<>>
    /\ nextGeofileId = 1
    /\ vehicles = <<>>
    /\ nextVehicleId = 1
    /\ reg = [c \in 1..NumClients |-> [pc |-> "idle"]]
    /\ request = NoRequest
    /\ records = <<>>
    /\ nextRecordId = 1
    /\ reports = <<>>
    /\ editingReport = Null
    /\ response = Reply(0, Message("none"))
    /\ storeCalls = <<>>

\* the same with the users of the store
InitStore == users \in InitUsers /\ InitOther

\* requests to every route
Init == InitStore /\ focus = "all"

----------------------------------------------------------------------------
(* Actions: one per route *)

Login ==
    \E body \in LoginBodies :
        LET o == login(users, resetTokens, session, body) IN
        /\ \A i \in DOMAIN o.users : o.users[i].lastLogin <= MaxLogins
        /\ Handle([route |-> "POST /api/auth/login", body |-> body], o)
        /\ UNCHANGED nextUserId

Register ==
    \E body \in RegisterBodies :
        LET o == register(users, resetTokens, session, body, nextUserId) IN
        /\ DOMAIN o.users \subseteq 1..MaxUserId
        /\ Handle([route |-> "POST /api/auth/register", body |-> body], o)
        /\ nextUserId' = IF o.users # users THEN nextUserId + 1 ELSE nextUserId

ForgotPassword ==
    \E body \in ForgotBodies, token \in Tokens \ DOMAIN resetTokens :
        LET o == forgotPassword(users, resetTokens, session, body, token) IN
        /\ Handle([route |-> "POST /api/auth/forgot-password", body |-> body], o)
        /\ UNCHANGED nextUserId

ResetPassword ==
    \E body \in ResetBodies :
        LET o == resetPassword(users, resetTokens, session, body) IN
        /\ Handle([route |-> "POST /api/auth/reset-password", body |-> body], o)
        /\ UNCHANGED nextUserId

Logout ==
    \E err \in BOOLEAN :
        LET o == logout(users, resetTokens, session, err) IN
        /\ Handle([route |-> "POST /api/auth/logout"], o)
        /\ UNCHANGED nextUserId

Me ==
    /\ Handle([route |-> "GET /api/auth/me"], me(users, resetTokens, session))
    /\ UNCHANGED nextUserId

PutProfile ==
    \E body \in ProfileBodies :
        LET o == putProfile(users, resetTokens, session, body) IN
        /\ Handle([route |-> "PUT /api/profile", body |-> body], o)
        /\ UNCHANGED nextUserId

GetUsers ==
    /\ Handle([route |-> "GET /api/users"], getUsers(users, resetTokens, session))
    /\ UNCHANGED nextUserId

DeleteUser ==
    \E id \in IdParams :
        LET o == deleteUserRoute(users, resetTokens, session, id) IN
        /\ Handle([route |-> "DELETE /api/users/:id", id |-> id], o)
        /\ UNCHANGED nextUserId

NextAuth ==
    \/ Login
    \/ Register
    \/ ForgotPassword
    \/ ResetPassword
    \/ Logout
    \/ Me
    \/ PutProfile
    \/ GetUsers
    \/ DeleteUser

SpecAuth == Init /\ [][NextAuth]_vars

----------------------------------------------------------------------------
(* Properties of the authentication and user-management routes *)

PublicRoutes ==
    {"POST /api/auth/login", "POST /api/auth/register",
     "POST /api/auth/forgot-password", "POST /api/auth/reset-password",
     "POST /api/auth/logout", "GET /api/auth/me", "none"}

\* the login request of the step names a stored user and carries another password
LoginWithWrongPassword ==
    /\ request'.route = "POST /api/auth/login"
    /\ loginSchema_ok(request'.body)
    /\ getUserByUsername(users, request'.body.username) # NoUser
    /\ getUserByUsername(users, request'.body.username).password # request'.body.password

\* C1: a login whose password differs from the stored password of the named user
\* is answered 401, sets no session userId and updates no lastLogin, for every
\* username, "admin" included.
C1_WrongPasswordNeverLogsIn ==
    [][LoginWithWrongPassword =>
         /\ response'.status = 401
         /\ session' = session
         /\ users' = users]_vars

\* C2: a request without a session userId to any route other than login,
\* registration, forgot-password, reset-password, logout and /auth/me is answered
\* 401 by requireAuth and makes no store call.
C2_SessionRequired ==
    [][(request'.route \notin PublicRoutes /\ session.userId = 0) =>
         /\ response' = requireAuth(session)
         /\ storeCalls' = <<>>]_vars

\* C3: no success response that returns a user (login, register, /auth/me,
\* PUT /profile, GET /users) carries a password field.
C3_NoPasswordInResponse ==
    response.status \in {200, 201} =>
        /\ Has(response.body, "user") => ~Has(response.body.user, "password")
        /\ Has(response.body, "users") =>
              \A i \in DOMAIN response.body.users :
                  ~Has(response.body.users[i], "password")

\* C3's case: a logged-in client listed the users and got two of them back
C3_Witness ==
    /\ response.status = 200
    /\ request.route = "GET /api/users"
    /\ Cardinality(DOMAIN response.body.users) = 2
    /\ session.userId # 0

\* two responses a client cannot tell apart: status, fields and message
SameAnswer(r1, r2) ==
    /\ r1.status = r2.status
    /\ DOMAIN r1.body = DOMAIN r2.body
    /\ r1.body.message = r2.body.message

\* the store without the users named username
WithoutUsername(us, username) ==
    Restrict(us, {i \in DOMAIN us : us[i].username # username})

\* C4: the response of forgot-password is the same in two stores that differ
\* only in whether the requested username is a user.
C4_ForgotPasswordHidesExistence ==
    (request.route = "POST /api/auth/forgot-password"
       /\ forgotPasswordSchema_ok(request.body)) =>
        \A token \in Tokens :
            SameAnswer(response,
                       forgotPassword(WithoutUsername(users, request.body.username),
                                      <<>>, session, request.body, token).resp)

\* C5: DELETE /api/users/:id with an id that is 1 is answered 400 without a store
\* call, and no request removes an existing user 1.
C5_AdminNeverDeleted ==
    [][/\ (request'.route = "DELETE /api/users/:id" /\ parseInt(request'.id) = 1) =>
              (response'.status = 400 /\ storeCalls' = <<>> /\ users' = users)
       /\ (1 \in DOMAIN users) => (1 \in DOMAIN users')]_vars

\* C5's case: a delete of id 1, written "1x", was refused while another user was
\* deleted before it
C5_Witness ==
    /\ request.route = "DELETE /api/users/:id"
    /\ request.id = <<"1", "x">>
    /\ response.status = 400
    /\ DOMAIN users = {1}
    /\ nextUserId > 2

----------------------------------------------------------------------------
(* Geofiles.  A fileType is a sequence of characters, since the POST route *)
(* lower-cases it; timestamps (lastAccessedAt) are version counters.       *)

UpperCase ==
    <<"A", "B", "C", "D", "E", "F", "G", "H", "I", "J", "K", "L", "M",
      "N", "O", "P", "Q", "R", "S", "T", "U", "V", "W", "X", "Y", "Z">>

LowerCase ==
    <<"a", "b", "c", "d", "e", "f", "g", "h", "i", "j", "k", "l", "m",
      "n", "o", "p", "q", "r", "s", "t", "u", "v", "w", "x", "y", "z">>

toLowerCaseChar(c) ==
    IF \E i \in DOMAIN UpperCase : UpperCase[i] = c
    THEN LowerCase[CHOOSE i \in DOMAIN UpperCase : UpperCase[i] = c]
    ELSE c

\* String.prototype.toLowerCase
toLowerCase(str) == [i \in DOMAIN str |-> toLowerCaseChar(str[i])]

\* const allowedTypes = ['kml', 'gpx', 'shp', 'geojson', 'kmz', 'gml', 'other']
allowedTypes ==
    {<<"k", "m", "l">>, <<"g", "p", "x">>, <<"s", "h", "p">>,
     <<"g", "e", "o", "j", "s", "o", "n">>, <<"k", "m", "z">>,
     <<"g", "m", "l">>, <<"o", "t", "h", "e", "r">>}

\* allowedTypes.includes(geofileData.fileType?.toLowerCase())
isAllowedFileType(data) ==
    Has(data, "fileType") /\ toLowerCase(data.fileType) \in allowedTypes

(* The geofile operations of the store, as the written specification gives *)
(* them.                                                                   *)

getGeofile(gs, id) == IF id \in DOMAIN gs THEN gs[id] ELSE Null

\* the store assigns the identifier and the creation timestamp
createGeofile(gs, id, data) ==
    gs @@ (id :> Spread(data, [id |-> id, createdAt |-> CreationTime]))

updateGeofileAccess(gs, id) == [gs EXCEPT ![id].lastAccessedAt = @ + 1]

incrementGeofileDownload(gs, id) == [gs EXCEPT ![id].downloadCount = @ + 1]

\* merges the mutable fields; identifier and createdAt never change
updateGeofile(gs, id, data) == [gs EXCEPT ![id] = Spread(@, Mutable(data))]

deleteGeofile(gs, id) == Restrict(gs, DOMAIN gs \ {id})

\* what one geofile handler does
GeoOutcome(resp, calls, gs) == [resp |-> resp, calls |-> calls, geofiles |-> gs]

\* GET /api/geofiles (no query filter)
getGeofiles(gs) == GeoOutcome(Reply(200, [geofiles |-> gs]), <<"getGeofiles">>, gs)

\* GET /api/geofiles/:id
getGeofileRoute(gs, id) ==
    LET gid == parseInt(id) IN
    IF getGeofile(gs, gid) = Null
    THEN GeoOutcome(Reply(404, Message("Geofile not found")), <<"getGeofile">>, gs)
    ELSE GeoOutcome(Reply(200, getGeofile(gs, gid)),
                    <<"getGeofile", "updateGeofileAccess">>,
                    updateGeofileAccess(gs, gid))

\* a download handler that forgets the increment call
downloadGeofileNoIncrement(gs, id) ==
    LET gid == parseInt(id) IN
    IF getGeofile(gs, gid) = Null
    THEN GeoOutcome(Reply(404, Message("Geofile not found")), <<"getGeofile">>, gs)
    ELSE GeoOutcome(Reply(200, [fileType |-> getGeofile(gs, gid).fileType]),
                    <<"getGeofile">>, gs)

\* GET /api/geofiles/:id/download (of the download information, the fileType)
downloadGeofile(gs, id) ==
    LET gid == parseInt(id) IN
    IF getGeofile(gs, gid) = Null
    THEN GeoOutcome(Reply(404, Message("Geofile not found")), <<"getGeofile">>, gs)
    ELSE GeoOutcome(Reply(200, [fileType |-> getGeofile(gs, gid).fileType]),
                    <<"getGeofile", "incrementGeofileDownload">>,
                    incrementGeofileDownload(gs, gid))

\* POST /api/geofiles; id is the identifier the store assigns
postGeofile(gs, body, id) ==
    LET geofileData ==
            Spread(body, [uploadedBy |-> 1, lastAccessedAt |-> 0, downloadCount |-> 0])
    IN  IF ~isAllowedFileType(geofileData)
        THEN GeoOutcome(Reply(400, Message("Invalid file type")), <<>>, gs)
        ELSE GeoOutcome(Reply(201, createGeofile(gs, id, geofileData)[id]),
                        <<"createGeofile">>, createGeofile(gs, id, geofileData))

\* PUT /api/geofiles/:id
putGeofile(gs, id, body) ==
    LET gid == parseInt(id) IN
    IF gid \notin DOMAIN gs
    THEN \* updateGeofile throws: caught
         GeoOutcome(Reply(400, Message("Failed to update geofile")),
                    <<"updateGeofile">>, gs)
    ELSE GeoOutcome(Reply(200, updateGeofile(gs, gid, body)[gid]),
                    <<"updateGeofile">>, updateGeofile(gs, gid, body))

\* DELETE /api/geofiles/:id
deleteGeofileRoute(gs, id) ==
    LET gid == parseInt(id) IN
    IF gid \notin DOMAIN gs
    THEN \* deleteGeofile throws: caught
         GeoOutcome(Reply(500, Message("Failed to delete geofile")),
                    <<"deleteGeofile">>, gs)
    ELSE GeoOutcome(Reply(200, Message("Geofile deleted successfully")),
                    <<"deleteGeofile">>, deleteGeofile(gs, gid))

(* Geofile requests of the model *)

FileTypes == {<<"K", "M", "L">>, <<"k", "m", "l">>, <<"x", "y", "z">>}

PostGeofileBodies ==
    {[fileType |-> ft] : ft \in FileTypes}
      \cup {[fileType |-> <<"k", "m", "l">>, downloadCount |-> 1], <<>>}

PutGeofileBodies ==
    {[fileType |-> <<"x", "y", "z">>], [fileType |-> <<"K", "M", "L">>],
     [downloadCount |-> 0], [id |-> 2, createdAt |-> "forged"], <<>>}

GeofileIdParams == {<<"1">>, <<"2">>, <<"x">>}

\* the handler's outcome becomes the next state
HandleGeo(req, o) ==
    /\ request' = req
    /\ response' = o.resp
    /\ storeCalls' = o.calls
    /\ geofiles' = o.geofiles
    /\ UNCHANGED <<authVars, vehicleVars, recordVars, reg,
                   componentVars>>

GetGeofiles ==
    /\ HandleGeo([route |-> "GET /api/geofiles"], getGeofiles(geofiles))
    /\ UNCHANGED nextGeofileId

GetGeofile ==
    \E id \in GeofileIdParams :
        LET o == getGeofileRoute(geofiles, id) IN
        /\ \A i \in DOMAIN o.geofiles : o.geofiles[i].lastAccessedAt <= MaxAccess
        /\ HandleGeo([route |-> "GET /api/geofiles/:id", id |-> id], o)
        /\ UNCHANGED nextGeofileId

DownloadGeofile ==
    \E id \in GeofileIdParams :
        LET o == downloadGeofile(geofiles, id) IN
        /\ \A i \in DOMAIN o.geofiles : o.geofiles[i].downloadCount <= MaxDownloads
        /\ HandleGeo([route |-> "GET /api/geofiles/:id/download", id |-> id], o)
        /\ UNCHANGED nextGeofileId

PostGeofile ==
    \E body \in PostGeofileBodies :
        LET o == postGeofile(geofiles, body, nextGeofileId) IN
        /\ DOMAIN o.geofiles \subseteq 1..MaxGeofileId
        /\ HandleGeo([route |-> "POST /api/geofiles", body |-> body], o)
        /\ nextGeofileId' =
              IF o.geofiles # geofiles THEN nextGeofileId + 1 ELSE nextGeofileId

PutGeofile ==
    \E id \in GeofileIdParams, body \in PutGeofileBodies :
        LET o == putGeofile(geofiles, id, body) IN
        /\ HandleGeo([route |-> "PUT /api/geofiles/:id", id |-> id, body |-> body], o)
        /\ UNCHANGED nextGeofileId

DeleteGeofile ==
    \E id \in GeofileIdParams :
        LET o == deleteGeofileRoute(geofiles, id) IN
        /\ HandleGeo([route |-> "DELETE /api/geofiles/:id", id |-> id], o)
        /\ UNCHANGED nextGeofileId

NextGeo ==
    \/ GetGeofiles
    \/ GetGeofile
    \/ DownloadGeofile
    \/ PostGeofile
    \/ PutGeofile
    \/ DeleteGeofile

\* the resource routes read no user: the store holds the seeded admin only
InitResources == Init /\ users = (1 :> AdminUser)

SpecGeo == InitResources /\ [][NextGeo]_vars

----------------------------------------------------------------------------
(* Police vehicles *)

\* ['available', 'on_patrol', 'responding', 'out_of_service']
VehicleStatuses == {"available", "on_patrol", "responding", "out_of_service"}

\* a status check that only asks for a non-empty status
isValidVehicleStatusAnyText(body) == Has(body, "status") /\ body.status # ""

\* !(!status || ![...].includes(status))
isValidVehicleStatus(body) ==
    Has(body, "status") /\ body.status # "" /\ body.status \in VehicleStatuses

\* !(!location || !Array.isArray(location) || location.length !== 2)
isValidLocation(body) == Has(body, "location") /\ Len(body.location) = 2

\* insertPoliceVehicleSchema of ../shared/schema.js, as the written specification
\* gives it: a required call sign, a status of the declared set
insertPoliceVehicleSchema_ok(body) ==
    /\ Has(body, "callSign")
    /\ Has(body, "status") => body.status \in VehicleStatuses

\* the parsed vehicle: status defaults to available
insertPoliceVehicleSchema_parse(body) == Spread([status |-> "available"], body)

(* The vehicle operations of the store, as the written specification gives *)
(* them.                                                                   *)

getPoliceVehicle(vs, id) == IF id \in DOMAIN vs THEN vs[id] ELSE Null

createPoliceVehicle(vs, id, data) ==
    vs @@ (id :> Spread(data, [id |-> id, createdAt |-> CreationTime]))

updatePoliceVehicle(vs, id, data) == [vs EXCEPT ![id] = Spread(@, Mutable(data))]

updateVehicleLocation(vs, id, location) ==
    [vs EXCEPT ![id] = Spread(@, [location |-> location])]

updateVehicleStatus(vs, id, status) == [vs EXCEPT ![id] = Spread(@, [status |-> status])]

deletePoliceVehicle(vs, id) == Restrict(vs, DOMAIN vs \ {id})

\* what one vehicle handler does
VehicleOutcome(resp, calls, vs) == [resp |-> resp, calls |-> calls, vehicles |-> vs]

\* GET /api/police-vehicles
getPoliceVehicles(vs) ==
    VehicleOutcome(Reply(200, vs), <<"getPoliceVehicles">>, vs)

\* GET /api/police-vehicles/:id
getPoliceVehicleRoute(vs, id) ==
    LET vid == parseInt(id) IN
    IF getPoliceVehicle(vs, vid) = Null
    THEN VehicleOutcome(Reply(404, Message("Police vehicle not found")),
                        <<"getPoliceVehicle">>, vs)
    ELSE VehicleOutcome(Reply(200, getPoliceVehicle(vs, vid)),
                        <<"getPoliceVehicle">>, vs)

\* POST /api/police-vehicles; id is the identifier the store assigns
postPoliceVehicle(vs, body, id) ==
    IF ~insertPoliceVehicleSchema_ok(body)
    THEN VehicleOutcome(Reply(400, Message("Invalid police vehicle data")), <<>>, vs)
    ELSE LET after == createPoliceVehicle(vs, id, insertPoliceVehicleSchema_parse(body))
         IN  VehicleOutcome(Reply(201, after[id]), <<"createPoliceVehicle">>, after)

\* PUT /api/police-vehicles/:id
putPoliceVehicle(vs, id, body) ==
    LET vid == parseInt(id) IN
    IF ~insertPoliceVehicleSchema_ok(body)
    THEN VehicleOutcome(Reply(400, Message("Failed to update police vehicle")),
                        <<>>, vs)
    ELSE IF vid \notin DOMAIN vs
    THEN \* updatePoliceVehicle throws: caught
         VehicleOutcome(Reply(400, Message("Failed to update police vehicle")),
                        <<"updatePoliceVehicle">>, vs)
    ELSE LET after == updatePoliceVehicle(vs, vid, insertPoliceVehicleSchema_parse(body))
         IN  VehicleOutcome(Reply(200, after[vid]), <<"updatePoliceVehicle">>, after)

\* PATCH /api/police-vehicles/:id/location
patchVehicleLocation(vs, id, body) ==
    LET vid == parseInt(id) IN
    IF ~isValidLocation(body)
    THEN VehicleOutcome(
             Reply(400, Message("Invalid location format. Expected [longitude, latitude]")),
             <<>>, vs)
    ELSE IF vid \notin DOMAIN vs
    THEN \* updateVehicleLocation throws: caught
         VehicleOutcome(Reply(400, Message("Failed to update vehicle location")),
                        <<"updateVehicleLocation">>, vs)
    ELSE LET after == updateVehicleLocation(vs, vid, body.location)
         IN  VehicleOutcome(Reply(200, after[vid]), <<"updateVehicleLocation">>, after)

\* PATCH /api/police-vehicles/:id/status
patchVehicleStatus(vs, id, body) ==
    LET vid == parseInt(id) IN
    IF ~isValidVehicleStatus(body)
    THEN VehicleOutcome(
             Reply(400, Message("Invalid status. Must be one of: available, on_patrol, responding, out_of_service")),
             <<>>, vs)
    ELSE IF vid \notin DOMAIN vs
    THEN \* updateVehicleStatus throws: caught
         VehicleOutcome(Reply(400, Message("Failed to update vehicle status")),
                        <<"updateVehicleStatus">>, vs)
    ELSE LET after == updateVehicleStatus(vs, vid, body.status)
         IN  VehicleOutcome(Reply(200, after[vid]), <<"updateVehicleStatus">>, after)

\* DELETE /api/police-vehicles/:id
deletePoliceVehicleRoute(vs, id) ==
    LET vid == parseInt(id) IN
    IF vid \notin DOMAIN vs
    THEN \* deletePoliceVehicle throws: caught
         VehicleOutcome(Reply(500, Message("Failed to delete police vehicle")),
                        <<"deletePoliceVehicle">>, vs)
    ELSE VehicleOutcome(Reply(200, Message("Police vehicle deleted successfully")),
                        <<"deletePoliceVehicle">>, deletePoliceVehicle(vs, vid))

(* Vehicle requests of the model *)

VehicleBodies ==
    {[callSign |-> "unit-1"], [callSign |-> "unit-1", status |-> "on_patrol"],
     [callSign |-> "unit-1", status |-> "flying"], [status |-> "responding"]}

StatusBodies ==
    {[status |-> st] : st \in {"on_patrol", "out_of_service", "flying", ""}}
      \cup {<<>>}

LocationBodies ==
    {[location |-> <<0, 0>>], [location |-> <<1, 1>>], [location |-> <<1>>], <<>>}

VehicleIdParams == {<<"1">>, <<"2">>, <<"x">>}

\* the handler's outcome becomes the next state
HandleVehicle(req, o) ==
    /\ request' = req
    /\ response' = o.resp
    /\ storeCalls' = o.calls
    /\ vehicles' = o.vehicles
    /\ UNCHANGED <<authVars, geofileVars, recordVars, reg,
                   componentVars>>

GetPoliceVehicles ==
    /\ HandleVehicle([route |-> "GET /api/police-vehicles"], getPoliceVehicles(vehicles))
    /\ UNCHANGED nextVehicleId

GetPoliceVehicle ==
    \E id \in VehicleIdParams :
        /\ HandleVehicle([route |-> "GET /api/police-vehicles/:id", id |-> id],
                         getPoliceVehicleRoute(vehicles, id))
        /\ UNCHANGED nextVehicleId

PostPoliceVehicle ==
    \E body \in VehicleBodies :
        LET o == postPoliceVehicle(vehicles, body, nextVehicleId) IN
        /\ DOMAIN o.vehicles \subseteq 1..MaxVehicleId
        /\ HandleVehicle([route |-> "POST /api/police-vehicles", body |-> body], o)
        /\ nextVehicleId' =
              IF o.vehicles # vehicles THEN nextVehicleId + 1 ELSE nextVehicleId

PutPoliceVehicle ==
    \E id \in VehicleIdParams, body \in VehicleBodies :
        /\ HandleVehicle([route |-> "PUT /api/police-vehicles/:id", id |-> id,
                          body |-> body],
                         putPoliceVehicle(vehicles, id, body))
        /\ UNCHANGED nextVehicleId

PatchVehicleLocation ==
    \E id \in VehicleIdParams, body \in LocationBodies :
        /\ HandleVehicle([route |-> "PATCH /api/police-vehicles/:id/location",
                          id |-> id, body |-> body],
                         patchVehicleLocation(vehicles, id, body))
        /\ UNCHANGED nextVehicleId

PatchVehicleStatus ==
    \E id \in VehicleIdParams, body \in StatusBodies :
        /\ HandleVehicle([route |-> "PATCH /api/police-vehicles/:id/status",
                          id |-> id, body |-> body],
                         patchVehicleStatus(vehicles, id, body))
        /\ UNCHANGED nextVehicleId

DeletePoliceVehicle ==
    \E id \in VehicleIdParams :
        /\ HandleVehicle([route |-> "DELETE /api/police-vehicles/:id", id |-> id],
                         deletePoliceVehicleRoute(vehicles, id))
        /\ UNCHANGED nextVehicleId

NextVehicle ==
    \/ GetPoliceVehicles
    \/ GetPoliceVehicle
    \/ PostPoliceVehicle
    \/ PutPoliceVehicle
    \/ PatchVehicleLocation
    \/ PatchVehicleStatus
    \/ DeletePoliceVehicle

SpecVehicle == InitResources /\ [][NextVehicle]_vars

----------------------------------------------------------------------------
(* Properties of the geofile and vehicle routes *)

\* C6: after any sequence of POST, PUT and PATCH requests every stored
\* enum-constrained field holds a value of its declared set (the geofile fileType
\* up to letter case, the vehicle status exactly); a write that carries a value
\* outside the set never reaches the store.
C6_EnumFieldsValid ==
    /\ \A i \in DOMAIN geofiles : toLowerCase(geofiles[i].fileType) \in allowedTypes
    /\ \A i \in DOMAIN vehicles : vehicles[i].status \in VehicleStatuses

\* the POST /api/geofiles request of the step carries an allowed fileType
PostsAllowedFileType ==
    /\ Has(request'.body, "fileType")
    /\ toLowerCase(request'.body.fileType) \in allowedTypes

\* C7: POST /api/geofiles with a fileType that matches an allowed type up to
\* letter case is accepted, and the fileType stored and returned is the lowercase
\* form; with any other fileType, or none, it is answered 400 and creates nothing.
C7_PostGeofileCanonicalType ==
    [][request'.route = "POST /api/geofiles" =>
         IF PostsAllowedFileType
         THEN /\ response'.status = 201
              /\ response'.body.fileType = toLowerCase(request'.body.fileType)
              /\ geofiles'[response'.body.id].fileType = toLowerCase(request'.body.fileType)
         ELSE /\ response'.status = 400
              /\ geofiles' = geofiles]_vars

\* C8: PATCH /api/police-vehicles/:id/status with a status outside the declared
\* set, or none, is answered 400 and changes no vehicle; with a status of the set
\* and an existing vehicle it is answered 200 and a GET of the vehicle that follows
\* shows the new status.
C8_PatchVehicleStatus ==
    [][request'.route = "PATCH /api/police-vehicles/:id/status" =>
         IF ~Has(request'.body, "status") \/ request'.body.status \notin VehicleStatuses
         THEN /\ response'.status = 400
              /\ vehicles' = vehicles
         ELSE parseInt(request'.id) \in DOMAIN vehicles =>
                /\ response'.status = 200
                /\ getPoliceVehicleRoute(vehicles', request'.id).resp.status = 200
                /\ getPoliceVehicleRoute(vehicles', request'.id).resp.body.status
                     = request'.body.status
                /\ \A i \in DOMAIN vehicles \ {parseInt(request'.id)} :
                       i \in DOMAIN vehicles' /\ vehicles'[i] = vehicles[i]]_vars

\* C8's case: an existing available vehicle was set to on_patrol, answered 200
C8_Witness ==
    /\ request.route = "PATCH /api/police-vehicles/:id/status"
    /\ request.body = [status |-> "on_patrol"]
    /\ response.status = 200
    /\ response.body.status = "on_patrol"
    /\ Cardinality(DOMAIN vehicles) = 2

\* C9: each download of an existing geofile raises its downloadCount by exactly 1
\* with one increment call and leaves the other geofiles alone; a download of a
\* missing geofile is answered 404 and changes nothing; GET /api/geofiles/:id
\* changes no downloadCount.
C9_DownloadCountsOnce ==
    [][/\ request'.route = "GET /api/geofiles/:id/download" =>
            IF parseInt(request'.id) \in DOMAIN geofiles
            THEN /\ response'.status = 200
                 /\ DOMAIN geofiles' = DOMAIN geofiles
                 /\ \A i \in DOMAIN geofiles :
                        geofiles'[i].downloadCount =
                            geofiles[i].downloadCount
                              + (IF i = parseInt(request'.id) THEN 1 ELSE 0)
                 /\ Len(SelectSeq(storeCalls', LAMBDA c : c = "incrementGeofileDownload")) = 1
            ELSE /\ response'.status = 404
                 /\ geofiles' = geofiles
       /\ request'.route = "GET /api/geofiles/:id" =>
            /\ DOMAIN geofiles' = DOMAIN geofiles
            /\ \A i \in DOMAIN geofiles :
                   geofiles'[i].downloadCount = geofiles[i].downloadCount]_vars

\* C9's case: after two downloads of geofile 1, a GET of it shows downloadCount 2
\* while geofile 2 still shows 0
C9_Witness ==
    /\ request.route = "GET /api/geofiles/:id"
    /\ request.id = <<"1">>
    /\ response.status = 200
    /\ response.body.downloadCount = 2
    /\ 2 \in DOMAIN geofiles
    /\ geofiles[2].downloadCount = 0

----------------------------------------------------------------------------
(* POST /api/auth/register, step by step.  The handler awaits the store    *)
(* three times (getUserByUsername, getUserByEmail, createUser); between    *)
(* two awaits the handlers of other requests run.  reg[c].pc is where the  *)
(* handler of client c stands.                                             *)

\* the request is parsed and the username looked up
RegisterLookupUsername(c) ==
    \E body \in RegisterBodies :
        /\ reg[c].pc \in {"idle", "done"}
        /\ reg' = [reg EXCEPT ![c] =
              IF ~registerSchema_ok(body)
              THEN [pc |-> "done", body |-> body,
                    resp |-> Reply(400, Message("Invalid input"))]
              ELSE IF getUserByUsername(users, body.username) # NoUser
              THEN [pc |-> "done", body |-> body,
                    resp |-> Reply(409, Message("Username already exists"))]
              ELSE [pc |-> "getUserByEmail", body |-> body]]
        /\ UNCHANGED <<authVars, geofileVars, vehicleVars, recordVars, lastVars,
                       componentVars>>

\* the email is looked up
RegisterLookupEmail(c) ==
    /\ reg[c].pc = "getUserByEmail"
    /\ reg' = [reg EXCEPT ![c] =
          IF getUserByEmail(users, reg[c].body.email) # NoUser
          THEN [pc |-> "done", body |-> reg[c].body,
                resp |-> Reply(409, Message("Email already exists"))]
          ELSE [pc |-> "createUser", body |-> reg[c].body]]
    /\ UNCHANGED <<authVars, geofileVars, vehicleVars, recordVars, lastVars,
                   componentVars>>

\* a user with the username or the email of data is stored
IsDuplicate(us, data) ==
    \E i \in DOMAIN us : us[i].username = data.username \/ us[i].email = data.email

\* the user is created and the response sent.  The specification calls username
\* and email unique and does not say whether the store refuses a duplicate:
\* either it persists it, or createUser throws and the catch answers 400.
RegisterCreateUser(c) ==
    \E refuses \in BOOLEAN :
        /\ reg[c].pc = "createUser"
        /\ nextUserId <= MaxUserId
        /\ IF refuses /\ IsDuplicate(users, reg[c].body)
           THEN /\ reg' = [reg EXCEPT ![c] =
                     [pc |-> "done", body |-> reg[c].body,
                      resp |-> Reply(400, Message("Invalid input"))]]
                /\ UNCHANGED <<users, nextUserId>>
           ELSE /\ users' = createUser(users, nextUserId, reg[c].body)
                /\ nextUserId' = nextUserId + 1
                /\ reg' = [reg EXCEPT ![c] =
                     [pc |-> "done", body |-> reg[c].body,
                      resp |-> Reply(201,
                          [user |-> withoutPassword(NewUser(nextUserId, reg[c].body))])]]
        /\ UNCHANGED <<resetTokens, session, geofileVars, vehicleVars, recordVars,
                       lastVars,
                       componentVars>>

NextRegister ==
    \E c \in 1..NumClients :
        \/ RegisterLookupUsername(c)
        \/ RegisterLookupEmail(c)
        \/ RegisterCreateUser(c)

SpecRegister == Init /\ [][NextRegister]_vars

\* C10: under any interleaving of register requests no two stored users share a
\* username or an email, and a well-formed request that creates no user, its
\* username or email being stored already, is answered 409.
C10_UniqueUsernameAndEmail ==
    /\ \A i, j \in DOMAIN users :
           i # j => /\ users[i].username # users[j].username
                    /\ users[i].email # users[j].email
    /\ \A c \in 1..NumClients :
           (reg[c].pc = "done" /\ registerSchema_ok(reg[c].body)
              /\ reg[c].resp.status # 201) => reg[c].resp.status = 409

----------------------------------------------------------------------------
(* A store call that throws.  A handler with a try block answers from its  *)
(* catch block; a handler without one sends nothing, the rejection of its  *)
(* async function being nobody's to handle.                                *)

\* no response was sent
NoResponse == Reply(0, Message("none"))

\* error.message of a failed parse
ValidationError == "Required"

\* error.message of an update or a delete of an absent identifier
NotFoundError == "not found"

\* error.message of the thrown error
ErrorDetails == {ValidationError, NotFoundError, "connect ECONNREFUSED 127.0.0.1:27017"}

\* the catch block of each route that has one: route -> what it sends
catchBlocks ==
    [detail \in ErrorDetails |->
        ("POST /api/auth/login" :> Reply(400, Message("Invalid input")))
     @@ ("POST /api/auth/register" :> Reply(400, Message("Invalid input")))
     @@ ("POST /api/auth/forgot-password" :> Reply(400, Message("Invalid input")))
     @@ ("POST /api/auth/reset-password" :> Reply(400, Message("Invalid input")))
     @@ ("PUT /api/profile" :> Reply(400, Message("Invalid input")))
     @@ ("DELETE /api/users/:id" :> Reply(404, Message("User not found")))
     @@ ("POST /api/cases" :> Reply(400, Message("Invalid input")))
     @@ ("PUT /api/cases/:id" :> Reply(404, Message("Case not found")))
     @@ ("DELETE /api/cases/:id" :> Reply(404, Message("Case not found")))
     @@ ("GET /api/cases" :> Reply(500, Message("Failed to fetch cases")))
     @@ ("GET /api/ob-entries" :> Reply(500, Message("Failed to fetch OB entries")))
     @@ ("POST /api/ob-entries" :>
            Reply(400, [message |-> "Invalid input", error |-> detail]))
     @@ ("PUT /api/ob-entries/:id" :> Reply(404, Message("OB Entry not found")))
     @@ ("DELETE /api/ob-entries/:id" :>
            Reply(500, Message("Failed to delete OB entry")))
     @@ ("POST /api/license-plates" :> Reply(400, Message("Invalid input")))
     @@ ("PUT /api/license-plates/:id" :>
            Reply(404, Message("License plate not found")))
     @@ ("DELETE /api/license-plates/:id" :>
            Reply(404, Message("License plate not found")))
     @@ ("GET /api/evidence" :> Reply(500, Message("Failed to fetch evidence")))
     @@ ("GET /api/evidence/:id" :> Reply(500, Message("Failed to fetch evidence")))
     @@ ("POST /api/evidence" :> Reply(400, Message("Invalid evidence data")))
     @@ ("PUT /api/evidence/:id" :> Reply(400, Message("Failed to update evidence")))
     @@ ("DELETE /api/evidence/:id" :>
            Reply(500, Message("Failed to delete evidence")))
     @@ ("GET /api/geofiles" :> Reply(500, Message("Failed to fetch geofiles")))
     @@ ("GET /api/geofiles/:id" :> Reply(500, Message("Failed to fetch geofile")))
     @@ ("GET /api/geofiles/:id/download" :>
            Reply(500, Message("Failed to download geofile")))
     @@ ("GET /api/geofiles/search/by-location" :>
            Reply(500, Message("Failed to search geofiles by location")))
     @@ ("POST /api/geofiles" :> Reply(400, Message("Invalid geofile data")))
     @@ ("PUT /api/geofiles/:id" :> Reply(400, Message("Failed to update geofile")))
     @@ ("DELETE /api/geofiles/:id" :>
            Reply(500, Message("Failed to delete geofile")))
     @@ ("POST /api/geofiles/:id/link-case/:caseId" :>
            Reply(400, Message("Failed to link geofile to case")))
     @@ ("POST /api/geofiles/:id/add-tags" :> Reply(400, Message("Failed to add tags")))
     @@ ("GET /api/reports" :> Reply(500, Message("Failed to fetch reports")))
     @@ ("GET /api/reports/:id" :> Reply(500, Message("Failed to fetch report")))
     @@ ("POST /api/reports" :> Reply(400, Message("Invalid report data")))
     @@ ("PUT /api/reports/:id" :> Reply(400, Message("Failed to update report")))
     @@ ("DELETE /api/reports/:id" :> Reply(500, Message("Failed to delete report")))
     @@ ("GET /api/police-vehicles" :>
            Reply(500, Message("Failed to fetch police vehicles")))
     @@ ("GET /api/police-vehicles/:id" :>
            Reply(500, Message("Failed to fetch police vehicle")))
     @@ ("POST /api/police-vehicles" :>
            Reply(400, Message("Invalid police vehicle data")))
     @@ ("PUT /api/police-vehicles/:id" :>
            Reply(400, Message("Failed to update police vehicle")))
     @@ ("PATCH /api/police-vehicles/:id/location" :>
            Reply(400, Message("Failed to update vehicle location")))
     @@ ("PATCH /api/police-vehicles/:id/status" :>
            Reply(400, Message("Failed to update vehicle status")))
     @@ ("DELETE /api/police-vehicles/:id" :>
            Reply(500, Message("Failed to delete police vehicle")))]

\* the routes that call the store outside any try block
uncaughtRoutes ==
    {"GET /api/auth/me", "GET /api/users", "GET /api/license-plates",
     "GET /api/license-plates/search/:plateNumber"}

\* what the client of a route gets when a store call of its handler throws
onStoreError(route, detail) ==
    IF route \in uncaughtRoutes THEN NoResponse ELSE catchBlocks[detail][route]

\* a request to any route during which the store throws; the store is as before
StoreThrows ==
    \E detail \in ErrorDetails :
        \E route \in uncaughtRoutes \cup DOMAIN catchBlocks[detail] :
            /\ request' = [route |-> route, storeError |-> detail]
            /\ response' = onStoreError(route, detail)
            /\ storeCalls' = <<"throws">>
            /\ UNCHANGED <<authVars, geofileVars, vehicleVars, recordVars, reg,
                           componentVars>>

NextFailure == StoreThrows

SpecFailure == Init /\ [][NextFailure]_vars

\* C11: a request during which a store call throws ends with one response, of
\* status 500, whose body is a generic message and nothing of the failure.
C11_StoreFailureAnswers500 ==
    Has(request, "storeError") =>
        /\ response.status = 500
        /\ DOMAIN response.body = {"message"}

----------------------------------------------------------------------------
(* The routes of cases, license plates, evidence, reports and OB entries.  *)
(* They follow one pattern: parse the body, call the store, wrap the       *)
(* result; the table below holds what differs from one type to the next.   *)
(* Collections of different types share no state, so the model follows one *)
(* type at a time: records is the collection of the type in focus.         *)

RecordTypes == {"cases", "license-plates", "evidence", "reports", "ob-entries"}

\* per type: the names of its routes, the field its insert schema requires (as
\* the written specification gives it), the defaults POST adds, its messages,
\* and the keys under which the responses carry a record and the collection
recordRoutes ==
    ("cases" :>
        [post |-> "POST /api/cases", put |-> "PUT /api/cases/:id",
         delete |-> "DELETE /api/cases/:id", list |-> "GET /api/cases",
         required |-> "title", defaults |-> [createdById |-> 1],
         deleted |-> "Case deleted successfully",
         key |-> "case", listKey |-> "cases"])
 @@ ("license-plates" :>
        [post |-> "POST /api/license-plates", put |-> "PUT /api/license-plates/:id",
         delete |-> "DELETE /api/license-plates/:id",
         list |-> "GET /api/license-plates",
         required |-> "plateNumber", defaults |-> [addedById |-> 1],
         deleted |-> "License plate deleted successfully",
         key |-> "licensePlate", listKey |-> "licensePlates"])
 @@ ("evidence" :>
        [post |-> "POST /api/evidence", put |-> "PUT /api/evidence/:id",
         delete |-> "DELETE /api/evidence/:id", list |-> "GET /api/evidence",
         get |-> "GET /api/evidence/:id", notFound |-> "Evidence not found",
         required |-> "description", defaults |-> <<>>,
         deleted |-> "Evidence deleted successfully",
         key |-> "", listKey |-> "evidence"])
 @@ ("reports" :>
        [post |-> "POST /api/reports", put |-> "PUT /api/reports/:id",
         delete |-> "DELETE /api/reports/:id", list |-> "GET /api/reports",
         get |-> "GET /api/reports/:id", notFound |-> "Report not found",
         required |-> "title", defaults |-> [requestedBy |-> 1],
         deleted |-> "Report deleted successfully",
         key |-> "", listKey |-> "reports"])
 @@ ("ob-entries" :>
        [post |-> "POST /api/ob-entries", put |-> "PUT /api/ob-entries/:id",
         delete |-> "DELETE /api/ob-entries/:id", list |-> "GET /api/ob-entries",
         notFound |-> "OB Entry not found",
         required |-> "description",
         defaults |-> [status |-> "Pending", recordingOfficerId |-> 1],
         deleted |-> "OB Entry deleted successfully",
         key |-> "obEntry", listKey |-> "obEntries"])

\* status of a report and of an OB entry
RecordStatuses == {"Pending", "Approved", "Completed", "Rejected"}

\* insertCaseSchema, insertLicensePlateSchema, insertEvidenceSchema,
\* insertReportSchema, insertOBSchema, as the written specification gives them:
\* the required field present, an enumerated field of the declared set
insertSchema_ok(type, body) ==
    /\ Has(body, recordRoutes[type].required)
    /\ (type \in {"reports", "ob-entries"} /\ Has(body, "status"))
          => body.status \in RecordStatuses

\* the parsed body: the fields of the schema
insertSchema_parse(type, body) ==
    Restrict(body, DOMAIN body \cap {recordRoutes[type].required, "status"})

(* The store operations on one collection, as the written specification    *)
(* gives them; updatedAt is a version counter.                             *)

getRecord(rs, id) == IF id \in DOMAIN rs THEN rs[id] ELSE Null

createRecord(rs, id, data) ==
    rs @@ (id :> Spread(data, [id |-> id, createdAt |-> CreationTime, updatedAt |-> 0]))

\* an update that lets the request overwrite id and createdAt
updateRecordAnyField(rs, id, data) ==
    [rs EXCEPT ![id] = Spread(Spread(@, data), [updatedAt |-> @.updatedAt + 1])]

updateRecord(rs, id, data) ==
    [rs EXCEPT ![id] = Spread(Spread(@, Mutable(data)), [updatedAt |-> @.updatedAt + 1])]

deleteRecord(rs, id) == Restrict(rs, DOMAIN rs \ {id})

\* the identifier a route looks up: parseInt(req.params.id), but for OB entries
\* req.params.id as it is, which names an entry only if it is the entry's id
recordId(type, id) ==
    IF type = "ob-entries"
    THEN IF Len(id) = 1 /\ IsDigit(id[1]) THEN DigitValue(id[1]) ELSE NaN
    ELSE parseInt(id)

\* res.json({ case: .. }), res.json({ licensePlate: .. }), res.json(..)
wrap(type, rec) ==
    IF recordRoutes[type].key = "" THEN rec ELSE (recordRoutes[type].key :> rec)

\* what one handler does
RecordOutcome(resp, calls, rs) == [resp |-> resp, calls |-> calls, records |-> rs]

\* GET /api/cases, /api/license-plates, /api/evidence, /api/reports, /api/ob-entries
listRecords(type, rs) ==
    RecordOutcome(Reply(200, (recordRoutes[type].listKey :> rs)), <<"list">>, rs)

\* GET /api/evidence/:id, GET /api/reports/:id
getRecordRoute(type, rs, id) ==
    IF getRecord(rs, parseInt(id)) = Null
    THEN RecordOutcome(Reply(404, Message(recordRoutes[type].notFound)), <<"get">>, rs)
    ELSE RecordOutcome(Reply(200, getRecord(rs, parseInt(id))), <<"get">>, rs)

\* a POST handler that calls the store before it parses the body
postRecordCreatesFirst(type, rs, body, id) ==
    LET data == Spread(body, recordRoutes[type].defaults)
        created == createRecord(rs, id, data)
    IN  IF ~insertSchema_ok(type, body)
        THEN RecordOutcome(catchBlocks[ValidationError][recordRoutes[type].post],
                           <<"create">>, created)
        ELSE RecordOutcome(Reply(201, wrap(type, created[id])), <<"create">>, created)

\* POST /api/cases, /api/license-plates, /api/evidence, /api/reports,
\* /api/ob-entries; id is the identifier the store assigns
postRecord(type, rs, body, id) ==
    LET parsed == insertSchema_parse(type, body)
        \* { ...caseData, createdById: 1 }; for an OB entry the status of the
        \* body stays (status: obData.status || 'Pending')
        data == IF type = "ob-entries" /\ Has(parsed, "status")
                THEN Spread(recordRoutes[type].defaults, parsed)
                ELSE Spread(parsed, recordRoutes[type].defaults)
        created == createRecord(rs, id, data)
    IN  IF ~insertSchema_ok(type, body)
        THEN RecordOutcome(catchBlocks[ValidationError][recordRoutes[type].post],
                           <<>>, rs)
        ELSE RecordOutcome(Reply(201, wrap(type, created[id])), <<"create">>, created)

\* the routes that parse the body of a PUT with the insert schema
putParses(type) == type \in {"evidence", "reports"}

\* PUT /api/cases/:id, /api/license-plates/:id, /api/evidence/:id,
\* /api/reports/:id, /api/ob-entries/:id
putRecord(type, rs, id, body) ==
    LET rid == recordId(type, id)
        caught == catchBlocks[IF rid \in DOMAIN rs THEN ValidationError
                              ELSE NotFoundError][recordRoutes[type].put]
        updates == IF putParses(type) THEN insertSchema_parse(type, body) ELSE body
        updated == updateRecord(rs, rid, updates)
    IN  IF putParses(type) /\ ~insertSchema_ok(type, body)
        THEN RecordOutcome(caught, <<>>, rs)
        ELSE IF rid \notin DOMAIN rs
        THEN \* the update throws and is caught; OBEntriesCRUD.update returns
             \* nothing instead, and !updated is answered as the catch block answers
             RecordOutcome(caught, <<"update">>, rs)
        ELSE IF type = "ob-entries"
        THEN RecordOutcome(Reply(200, Message("OB Entry updated successfully")),
                           <<"update">>, updated)
        ELSE RecordOutcome(Reply(200, wrap(type, updated[rid])), <<"update">>, updated)

\* a DELETE handler that answers without calling the store
deleteRecordRouteKeepsRecord(type, rs, id) ==
    RecordOutcome(Reply(200, Message(recordRoutes[type].deleted)), <<>>, rs)

\* DELETE /api/cases/:id, /api/license-plates/:id, /api/evidence/:id,
\* /api/reports/:id, /api/ob-entries/:id
deleteRecordRoute(type, rs, id) ==
    LET rid == recordId(type, id) IN
    IF rid \notin DOMAIN rs
    THEN IF type = "ob-entries"
         THEN \* !deleted
              RecordOutcome(Reply(404, Message(recordRoutes[type].notFound)),
                            <<"delete">>, rs)
         ELSE \* the delete throws: caught
              RecordOutcome(catchBlocks[NotFoundError][recordRoutes[type].delete],
                            <<"delete">>, rs)
    ELSE RecordOutcome(Reply(200, Message(recordRoutes[type].deleted)),
                       <<"delete">>, deleteRecord(rs, rid))

(* Requests of the model *)

\* highest identifier the store assigns to a record
MaxRecordId == 2
\* highest updatedAt version a record reaches
MaxUpdates == 1

PostRecordBodies(type) ==
    LET r == recordRoutes[type].required IN
    {<<>>, (r :> "a"), (r :> "a") @@ [status |-> "Approved"],
     (r :> "a") @@ [status |-> "Bogus"]}

PutRecordBodies(type) ==
    LET r == recordRoutes[type].required IN
    {(r :> "a") @@ [status |-> "Approved"], [status |-> "Bogus"],
     (r :> "a") @@ [id |-> 2, createdAt |-> "forged"]}

RecordIdParams == {<<"1">>, <<"2">>, <<"1", "x">>, <<"x">>}

\* the handler's outcome becomes the next state
HandleRecord(req, o) ==
    /\ focus \in RecordTypes
    /\ request' = req
    /\ response' = o.resp
    /\ storeCalls' = o.calls
    /\ records' = o.records
    /\ UNCHANGED <<authVars, geofileVars, vehicleVars, focus, reg,
                   componentVars>>

ListRecords ==
    /\ focus \in RecordTypes
    /\ HandleRecord([route |-> recordRoutes[focus].list], listRecords(focus, records))
    /\ UNCHANGED nextRecordId

GetRecord ==
    /\ focus \in {"evidence", "reports"}
    /\ \E id \in RecordIdParams :
          HandleRecord([route |-> recordRoutes[focus].get, id |-> id],
                       getRecordRoute(focus, records, id))
    /\ UNCHANGED nextRecordId

PostRecord ==
    /\ focus \in RecordTypes
    /\ nextRecordId <= MaxRecordId
    /\ \E body \in PostRecordBodies(focus) :
          LET o == postRecord(focus, records, body, nextRecordId) IN
          /\ HandleRecord([route |-> recordRoutes[focus].post, body |-> body], o)
          /\ nextRecordId' = IF o.resp.status = 201 THEN nextRecordId + 1
                             ELSE nextRecordId

PutRecord ==
    /\ focus \in RecordTypes
    /\ \E id \in RecordIdParams, body \in PutRecordBodies(focus) :
          LET o == putRecord(focus, records, id, body) IN
          /\ \A i \in DOMAIN o.records : o.records[i].updatedAt <= MaxUpdates
          /\ HandleRecord([route |-> recordRoutes[focus].put, id |-> id,
                           body |-> body], o)
    /\ UNCHANGED nextRecordId

DeleteRecord ==
    /\ focus \in RecordTypes
    /\ \E id \in RecordIdParams :
          HandleRecord([route |-> recordRoutes[focus].delete, id |-> id],
                       deleteRecordRoute(focus, records, id))
    /\ UNCHANGED nextRecordId

NextRecords == ListRecords \/ GetRecord \/ PostRecord \/ PutRecord \/ DeleteRecord

(* Requests to the routes of one resource type: a collection of the five   *)
(* types above, the geofiles, the police vehicles or the users.            *)

NextCrud ==
    \/ focus = "geofiles" /\ NextGeo
    \/ focus = "police-vehicles" /\ NextVehicle
    \/ focus = "users" /\ Register
    \/ NextRecords

InitCrud ==
    /\ InitStore
    /\ users = (1 :> AdminUser)
    /\ focus \in RecordTypes \cup {"geofiles", "police-vehicles", "users"}

SpecCrud == InitCrud /\ [][NextCrud]_vars

----------------------------------------------------------------------------
(* Properties of the routes of one resource type *)

\* the collection of the type in focus
collection ==
    CASE focus = "geofiles" -> geofiles
      [] focus = "police-vehicles" -> vehicles
      [] focus = "users" -> users
      [] OTHER -> records

PutRoutes ==
    {recordRoutes[t].put : t \in RecordTypes}
        \cup {"PUT /api/geofiles/:id", "PUT /api/police-vehicles/:id"}

DeleteRoutes ==
    {recordRoutes[t].delete : t \in RecordTypes}
        \cup {"DELETE /api/geofiles/:id", "DELETE /api/police-vehicles/:id"}

\* the body passes the schema of a route that parses it
PassesSchema(req) ==
    /\ focus = "police-vehicles" => insertPoliceVehicleSchema_ok(req.body)
    /\ (focus \in RecordTypes /\ putParses(focus)) => insertSchema_ok(focus, req.body)

\* C12: a PUT (with a body its schema accepts) or a DELETE on an identifier that
\* is not in the store is answered 404 and leaves the store as it was.
C12_MissingIdAnswered404 ==
    [][((request'.route \in DeleteRoutes
            \/ (request'.route \in PutRoutes /\ PassesSchema(request')))
          /\ recordId(focus, request'.id) \notin DOMAIN collection)
        => (response'.status = 404 /\ collection' = collection)]_vars

----------------------------------------------------------------------------
(* Requests to every route, one group of routes at a time: the routes of   *)
(* one resource type, the authentication and user routes on a store with   *)
(* an inactive user, or any route with a store call that throws.           *)

NextRoutes ==
    \/ NextCrud
    \/ focus = "auth" /\ NextAuth
    \/ focus = "failure" /\ NextFailure

InitRoutes ==
    /\ InitStore
    /\ focus \in RecordTypes
                   \cup {"geofiles", "police-vehicles", "users", "auth", "failure"}
    /\ users = IF focus = "auth" THEN (1 :> AdminUser) @@ (2 :> BobUser(FALSE))
               ELSE (1 :> AdminUser)

SpecRoutes == InitRoutes /\ [][NextRoutes]_vars

\* the statuses of the error taxonomy
ErrorStatuses == {400, 401, 403, 404, 409, 500}

\* a response that reports an error, sent by a route or by a middleware
IsErrorResponse(resp) == resp.status \notin {0, 200, 201}

WellFormedError(resp) ==
    /\ resp.status \in ErrorStatuses
    /\ Has(resp.body, "message")

\* C13: every error response of a route and every refusal of requireAuth and
\* requireAdmin has a status of the error taxonomy and a body with a message.
C13_ErrorResponsesWellFormed ==
    /\ IsErrorResponse(response) => WellFormedError(response)
    /\ \A r \in {requireAuth(session), requireAdmin(session)} :
           IsErrorResponse(r) => WellFormedError(r)

\* C13's case: POST /api/ob-entries answered 400 with more than a message, and
\* both middlewares refusing the session
C13_Witness ==
    /\ request.route = "POST /api/ob-entries"
    /\ response.status = 400
    /\ Has(response.body, "error")
    /\ requireAuth(session).status = 401
    /\ requireAdmin(session).status = 403

\* the resource types that have a read-by-id route
ReadableTypes == {"evidence", "geofiles", "reports", "police-vehicles"}

\* the response of the type's GET /api/<type>/:id on collection c
ReadById(c, id) ==
    CASE focus = "geofiles" -> getGeofileRoute(c, id).resp
      [] focus = "police-vehicles" -> getPoliceVehicleRoute(c, id).resp
      [] OTHER -> getRecordRoute(focus, c, id).resp

PostRoutes ==
    {recordRoutes[t].post : t \in RecordTypes}
        \cup {"POST /api/geofiles", "POST /api/police-vehicles"}

\* C14: for evidence, geofiles, reports and police vehicles, a DELETE answered
\* 200 removes the identifier; a GET of an identifier that is not in the store
\* is answered 404; and only a create answered 201 brings an identifier in.
C14_DeletedStaysGone ==
    [][(focus \in ReadableTypes) =>
         (/\ (request'.route \in DeleteRoutes /\ response'.status = 200)
                => /\ recordId(focus, request'.id) \in DOMAIN collection
                   /\ recordId(focus, request'.id) \notin DOMAIN collection'
                   /\ ReadById(collection', request'.id).status = 404
          /\ \A id \in RecordIdParams :
                recordId(focus, id) \notin DOMAIN collection'
                   => ReadById(collection', id).status = 404
          /\ (DOMAIN collection' \ DOMAIN collection # {})
                => (request'.route \in PostRoutes /\ response'.status = 201))]_vars

\* C14's case: report 1 was deleted while report 2 stays, and report 1 reads 404
C14_Witness ==
    /\ focus = "reports"
    /\ request.route = "DELETE /api/reports/:id"
    /\ request.id = <<"1">>
    /\ response.status = 200
    /\ DOMAIN records = {2}
    /\ getRecordRoute(focus, records, <<"1">>).resp.status = 404

\* the fields a PUT hands to the store: the body, or what its schema makes of it
Submitted(req) ==
    CASE focus = "police-vehicles" -> DOMAIN insertPoliceVehicleSchema_parse(req.body)
      [] focus \in RecordTypes /\ putParses(focus) ->
            DOMAIN insertSchema_parse(focus, req.body)
      [] OTHER -> DOMAIN req.body

----------------------------------------------------------------------------
(* Properties of the session *)

LoginAnswered200 ==
    request'.route = "POST /api/auth/login" /\ response'.status = 200

\* both middlewares refuse the session
Refused(sess) ==
    /\ requireAuth(sess).status = 401
    /\ requireAdmin(sess).status = 403

AdminOnlyRoutes == {"GET /api/users", "DELETE /api/users/:id"}

\* C17: a request to a user-management route from a session that requireAdmin
\* refuses (no user, or a user whose role is not admin) is answered 403 and
\* makes no store call.
C17_AdminOnlyRoutesRefuse ==
    [][(request'.route \in AdminOnlyRoutes /\ requireAdmin(session).status = 403)
         => (response'.status = 403 /\ storeCalls' = <<>> /\ users' = users)]_vars

\* C18: no request lowers the downloadCount of a geofile that exists before and
\* after it.
C18_DownloadCountNeverDecreases ==
    [][\A id \in DOMAIN geofiles \cap DOMAIN geofiles' :
           geofiles'[id].downloadCount >= geofiles[id].downloadCount]_vars

\* the create routes whose body a schema parses
CreateRoutes ==
    {recordRoutes[t].post : t \in RecordTypes}
        \cup {"POST /api/police-vehicles", "POST /api/auth/register"}

\* the schema of the create route in focus refuses the body
FailsSchema(body) ==
    CASE focus = "police-vehicles" -> ~insertPoliceVehicleSchema_ok(body)
      [] focus = "users" -> ~registerSchema_ok(body)
      [] OTHER -> ~insertSchema_ok(focus, body)

\* C19: a create request (cases, OB entries, license plates, evidence, reports,
\* police vehicles, users) whose body its schema refuses is answered 400 and
\* makes no store call; the store is as before.
C19_InvalidCreateRefused ==
    [][(request'.route \in CreateRoutes /\ FailsSchema(request'.body))
         => /\ response'.status = 400
            /\ storeCalls' = <<>>
            /\ <<users, nextUserId, vehicles, nextVehicleId, records, nextRecordId>>'
                 = <<users, nextUserId, vehicles, nextVehicleId, records, nextRecordId>>
      ]_vars

\* C19's case: a report with a status outside the declared set was refused
\* while the store holds a report
C19_Witness ==
    /\ request.route = "POST /api/reports"
    /\ Has(request.body, "status") /\ request.body.status \notin RecordStatuses
    /\ response.status = 400
    /\ storeCalls = <<>>
    /\ DOMAIN records = {1}

\* C20: the session gets a userId or a user, and a lastLogin changes, only in a
\* login answered 200; a login answered 400, 401 or 403 leaves the session and
\* the users as they were; after a login answered 200 the session holds the id
\* and the record of the user the request names, whose lastLogin alone changed.
C20_OnlyLoginSetsSession ==
    [][/\ ((session' # session) /\ (session'.userId # 0 \/ session'.user # NoUser))
            => LoginAnswered200
       /\ (\E i \in DOMAIN users \cap DOMAIN users' :
               users'[i].lastLogin # users[i].lastLogin) => LoginAnswered200
       /\ (request'.route = "POST /api/auth/login"
              /\ response'.status \in {400, 401, 403})
            => (session' = session /\ users' = users)
       /\ LoginAnswered200
            => LET user == getUserByUsername(users, request'.body.username) IN
               /\ user # NoUser
               /\ session'.userId = user.id
               /\ session'.user = user
               /\ users' = updateLastLogin(users, user.id)]_vars

\* C20's case: bob has logged in and admin never has
C20_Witness ==
    /\ request.route = "POST /api/auth/login"
    /\ request.body.username = "bob"
    /\ response.status = 200
    /\ session.userId = 2
    /\ session.user.username = "bob"
    /\ users[2].lastLogin = 1
    /\ users[1].lastLogin = 0

----------------------------------------------------------------------------
(* POST /api/auth/reset-password, step by step.  The handler awaits the    *)
(* store three times (getPasswordResetToken, updateUserPassword,           *)
(* deletePasswordResetToken); between two awaits the handlers of other     *)
(* requests run.  reg[c].pc is where the handler of client c stands.       *)

\* POST /api/auth/forgot-password, before any reset request: randomBytes(32)
\* repeats no token, so the one token of the model is issued once
IssueToken ==
    /\ \A c \in 1..NumClients : reg[c].pc = "idle"
    /\ ForgotPassword

\* the request is parsed and the token looked up
ResetLookupToken(c) ==
    \E body \in ResetBodies :
        /\ reg[c].pc \in {"idle", "done"}
        /\ reg' = [reg EXCEPT ![c] =
              IF ~resetPasswordSchema_ok(body)
              THEN [pc |-> "done", body |-> body, updated |-> FALSE,
                    resp |-> Reply(400, Message("Invalid input"))]
              ELSE IF body.token \notin DOMAIN resetTokens
              THEN [pc |-> "done", body |-> body, updated |-> FALSE,
                    resp |-> Reply(400, Message("Invalid or expired token"))]
              ELSE [pc |-> "updateUserPassword", body |-> body,
                    userId |-> resetTokens[body.token]]]
        /\ UNCHANGED <<authVars, geofileVars, vehicleVars, recordVars, lastVars,
                       componentVars>>

\* the password of resetData.userId is updated
ResetUpdatePassword(c) ==
    /\ reg[c].pc = "updateUserPassword"
    /\ IF reg[c].userId \notin DOMAIN users
       THEN \* updateUserPassword throws: caught
            /\ reg' = [reg EXCEPT ![c] =
                 [pc |-> "done", body |-> reg[c].body, updated |-> FALSE,
                  resp |-> Reply(400, Message("Invalid input"))]]
            /\ UNCHANGED users
       ELSE /\ users' = updateUserPassword(users, reg[c].userId, reg[c].body.password)
            /\ reg' = [reg EXCEPT ![c] =
                 [pc |-> "deletePasswordResetToken", body |-> reg[c].body]]
    /\ UNCHANGED <<nextUserId, resetTokens, session, geofileVars, vehicleVars,
                   recordVars, lastVars,
                   componentVars>>

\* the token is deleted and the response sent.  The specification does not say
\* what deleting a token that is gone does: either nothing, or
\* deletePasswordResetToken throws and the catch answers 400.
ResetDeleteToken(c) ==
    \E throws \in BOOLEAN :
        /\ reg[c].pc = "deletePasswordResetToken"
        /\ IF throws /\ reg[c].body.token \notin DOMAIN resetTokens
           THEN /\ reg' = [reg EXCEPT ![c] =
                     [pc |-> "done", body |-> reg[c].body, updated |-> TRUE,
                      resp |-> Reply(400, Message("Invalid input"))]]
                /\ UNCHANGED resetTokens
           ELSE /\ resetTokens' =
                     Restrict(resetTokens, DOMAIN resetTokens \ {reg[c].body.token})
                /\ reg' = [reg EXCEPT ![c] =
                     [pc |-> "done", body |-> reg[c].body, updated |-> TRUE,
                      resp |-> Reply(200, Message("Password updated successfully"))]]
        /\ UNCHANGED <<users, nextUserId, session, geofileVars, vehicleVars,
                       recordVars, lastVars,
                       componentVars>>

NextReset ==
    \/ IssueToken
    \/ \E c \in 1..NumClients :
          \/ ResetLookupToken(c)
          \/ ResetUpdatePassword(c)
          \/ ResetDeleteToken(c)

SpecReset == Init /\ [][NextReset]_vars

\* the request of client c with token t was answered with success
ResetSucceeded(r, t) ==
    r.pc = "done" /\ r.resp.status = 200 /\ r.body.token = t

\* the request of client c has changed a password with token t
ResetChangedPassword(r, t) ==
    \/ r.pc = "deletePasswordResetToken" /\ r.body.token = t
    \/ r.pc = "done" /\ r.updated /\ r.body.token = t

\* a reset request that arrives after a success with its token is answered 400
LateResetRefused ==
    [][\A c \in 1..NumClients :
         (/\ reg[c].pc \in {"idle", "done"} /\ reg'[c].pc # "idle"
          /\ reg'[c] # reg[c] /\ Has(reg'[c].body, "token")
          /\ \E d \in 1..NumClients \ {c} : ResetSucceeded(reg[d], reg'[c].body.token))
            => (reg'[c].pc = "done" /\ reg'[c].resp.status = 400)]_vars

\* C21: under any interleaving of reset-password requests with the same token at
\* most one of them changes a password and at most one is answered with success.
C21_ResetTokenUsedOnce ==
    \A t \in Tokens :
        /\ Cardinality({c \in 1..NumClients : ResetSucceeded(reg[c], t)}) <= 1
        /\ Cardinality({c \in 1..NumClients : ResetChangedPassword(reg[c], t)}) <= 1

----------------------------------------------------------------------------
(* Login of a deactivated account.  No route writes isActive: an account is *)
(* deactivated in the store, outside these routes, and it can be any        *)
(* account.                                                                 *)

\* user with isActive as given
Account(user, active) == [user EXCEPT !.isActive = active]

InitLogin ==
    /\ \E a, b \in BOOLEAN :
          users \in {(1 :> Account(AdminUser, a)),
                     (1 :> Account(AdminUser, a)) @@ (2 :> BobUser(b))}
    /\ InitOther
    /\ focus = "all"

NextLogin == Login \/ Logout \/ ForgotPassword \/ ResetPassword

SpecLogin == InitLogin /\ [][NextLogin]_vars

\* C22: a login that names a deactivated user and carries a password leaves the
\* session and the users as they were and is answered 403 if the password is
\* the stored one, 401 if it is not.
C22_InactiveNeverLogsIn ==
    [][(/\ request'.route = "POST /api/auth/login"
        /\ loginSchema_ok(request'.body)
        /\ getUserByUsername(users, request'.body.username) # NoUser
        /\ ~getUserByUsername(users, request'.body.username).isActive)
         => /\ session' = session
            /\ users' = users
            /\ response'.status =
                 IF request'.body.password
                      = getUserByUsername(users, request'.body.username).password
                 THEN 403 ELSE 401]_vars

----------------------------------------------------------------------------
(* The Reports component (React).  Its state is the list reports and the   *)
(* report being edited; its handlers call the report routes of the server. *)

\* the value of a property that an object does not have
Undefined == [undefined |-> TRUE]

\* obj.k
Get(obj, k) == IF Has(obj, k) THEN obj[k] ELSE Undefined

\* `${editingReport.id}`
idToString(n) ==
    <<CHOOSE ch \in {"0", "1", "2", "3", "4", "5", "6", "7", "8", "9"} :
          DigitValue(ch) = n>>

\* response.ok
ok(resp) == resp.status \in 200..299

\* the array that the server sends for a collection, in the order of the ids
RECURSIVE AsList(_)
AsList(rs) ==
    IF DOMAIN rs = {} THEN <<>>
    ELSE <<rs[Min(DOMAIN rs)]>> \o AsList(Restrict(rs, DOMAIN rs \ {Min(DOMAIN rs)}))

\* reports.filter(report => report.title?.toLowerCase() ...) throws a TypeError
\* on an element that is undefined: the component cannot render
filteredReportsThrows(list) == \E i \in DOMAIN list : list[i] = Undefined

\* formData as the form submits it
ReportForms == {[title |-> "a", status |-> s] : s \in {"Pending", "Approved"}}

\* a request of the component is served: the route handler's outcome
ServeReports(req, o) ==
    /\ focus = "reports"
    /\ request' = req
    /\ response' = o.resp
    /\ storeCalls' = o.calls
    /\ records' = o.records
    /\ UNCHANGED <<authVars, geofileVars, vehicleVars, focus, reg>>

\* the component is mounted: useState([]), useState(null)
Mount ==
    /\ focus = "reports"
    /\ reports' = <<>>
    /\ editingReport' = Null
    /\ UNCHANGED <<authVars, geofileVars, vehicleVars, recordVars, reg, lastVars>>

\* fetchReports
FetchReports ==
    /\ ~filteredReportsThrows(reports)
    /\ LET o == listRecords("reports", records) IN
       /\ ServeReports([route |-> "GET /api/reports", from |-> "Reports"], o)
       /\ reports' = IF ok(o.resp) /\ Has(o.resp.body, "reports")
                     THEN AsList(o.resp.body.reports) ELSE <<>>
    /\ UNCHANGED <<nextRecordId, editingReport>>

\* handleEdit
HandleEdit ==
    /\ focus = "reports"
    /\ ~filteredReportsThrows(reports)
    /\ \E i \in DOMAIN reports : editingReport' = reports[i]
    /\ UNCHANGED <<authVars, geofileVars, vehicleVars, recordVars, reg, lastVars,
                   reports>>

\* handleSubmit
HandleSubmit ==
    /\ ~filteredReportsThrows(reports)
    /\ \E formData \in ReportForms :
          IF editingReport # Null
          THEN LET id == idToString(editingReport.id)
                   o == putRecord("reports", records, id, formData)
                   data == o.resp.body
               IN  /\ \A i \in DOMAIN o.records : o.records[i].updatedAt <= MaxUpdates
                   /\ ServeReports([route |-> "PUT /api/reports/:id", id |-> id,
                                    body |-> formData, from |-> "Reports"], o)
                   /\ IF ~ok(o.resp)
                      THEN UNCHANGED <<reports, editingReport>>
                      ELSE /\ reports' =
                                [i \in DOMAIN reports |->
                                    IF reports[i].id = editingReport.id
                                    THEN Get(data, "report") ELSE reports[i]]
                           /\ editingReport' = Null
                   /\ UNCHANGED nextRecordId
          ELSE LET o == postRecord("reports", records, formData, nextRecordId)
                   data == o.resp.body
               IN  /\ nextRecordId <= MaxRecordId
                   /\ ServeReports([route |-> "POST /api/reports", body |-> formData,
                                    from |-> "Reports"], o)
                   /\ nextRecordId' = IF ok(o.resp) THEN nextRecordId + 1
                                      ELSE nextRecordId
                   /\ IF ~ok(o.resp)
                      THEN UNCHANGED <<reports, editingReport>>
                      ELSE /\ reports' = <<Get(data, "report")>> \o reports
                           /\ editingReport' = Null

\* handleDelete
HandleDelete ==
    /\ ~filteredReportsThrows(reports)
    /\ \E i \in DOMAIN reports :
          LET reportId == reports[i].id
              o == deleteRecordRoute("reports", records, idToString(reportId))
          IN  /\ ServeReports([route |-> "DELETE /api/reports/:id",
                               id |-> idToString(reportId), from |-> "Reports"], o)
              /\ reports' = IF ok(o.resp)
                            THEN SelectSeq(reports, LAMBDA report : report.id # reportId)
                            ELSE reports
    /\ UNCHANGED <<nextRecordId, editingReport>>

\* the component, and other clients of the report routes
NextReports ==
    \/ Mount
    \/ FetchReports
    \/ HandleEdit
    \/ HandleSubmit
    \/ HandleDelete
    \/ PostRecord
    \/ DeleteRecord

InitReports == InitStore /\ users = (1 :> AdminUser) /\ focus = "reports"

SpecReports == InitReports /\ [][NextReports]_vars

\* C23: after handleSubmit got a success response from POST /api/reports or
\* PUT /api/reports/:id, the list holds the report the server returned (first
\* on create, in place on update) and no element of the list is undefined.
C23_ListHoldsReturnedReport ==
    [][(Has(request', "from") /\ ok(response')
          /\ request'.route \in {"POST /api/reports", "PUT /api/reports/:id"})
         => /\ \A i \in DOMAIN reports' : reports'[i] # Undefined
            /\ request'.route = "POST /api/reports"
                  => reports' = <<response'.body>> \o reports
            /\ request'.route = "PUT /api/reports/:id"
                  => reports' = [i \in DOMAIN reports |->
                                    IF reports[i].id = editingReport.id
                                    THEN response'.body ELSE reports[i]]]_vars

----------------------------------------------------------------------------
(* seedDevAdmin: the development admin is created when the store has none. *)

\* User.findOne({ username })
findOne(us, username) == getUserByUsername(us, username)

\* new User({...}).save(): the document gets its identifier and is persisted
save(us, id, doc) == us @@ (id :> [doc EXCEPT !.id = id])

\* what one run leaves: the store, the calls made, the line it logged
SeedOutcome(us, calls, log) == [users |-> us, calls |-> calls, log |-> log]

\* a seed that creates the admin without looking for one
seedDevAdminWithoutLookup(us, id, throws) ==
    IF throws
    THEN SeedOutcome(us, <<"save">>, "Error seeding admin user")
    ELSE SeedOutcome(save(us, id, AdminUser), <<"save">>,
                     "Admin user created successfully")

\* seedDevAdmin; throws: the store rejects the call the run makes last, and
\* the catch block logs the error without rethrowing
seedDevAdmin(us, id, throws) ==
    LET existingAdmin == findOne(us, "admin") IN
    IF throws
    THEN SeedOutcome(us, IF existingAdmin # NoUser THEN <<"findOne">>
                         ELSE <<"findOne", "save">>,
                     "Error seeding admin user")
    ELSE IF existingAdmin # NoUser
    THEN SeedOutcome(us, <<"findOne">>, "Admin user already exists, skipping seed")
    ELSE SeedOutcome(save(us, id, AdminUser), <<"findOne", "save">>,
                     "Admin user created successfully")

\* one run of seedDevAdmin, from its first line to its return
SeedDevAdmin ==
    \E throws \in BOOLEAN :
        LET o == seedDevAdmin(users, nextUserId, throws) IN
        /\ focus = "all"
        /\ DOMAIN o.users \subseteq 1..MaxUserId
        /\ users' = o.users
        /\ nextUserId' = IF o.users # users THEN nextUserId + 1 ELSE nextUserId
        /\ request' = [route |-> "seedDevAdmin"]
        /\ response' = Reply(0, Message(o.log))
        /\ storeCalls' = o.calls
        /\ UNCHANGED <<resetTokens, session, geofileVars, vehicleVars, recordVars,
                       reg, componentVars>>

\* runs of the seed, one after the other, between requests that add, change
\* and remove users
NextSeed ==
    \/ SeedDevAdmin
    \/ Register
    \/ PutProfile
    \/ DeleteUser

\* the store at start-up: empty, or as an earlier start-up left it
InitSeed == users \in {<<>>} \cup InitUsers /\ InitOther /\ focus = "all"

SpecSeed == InitSeed /\ [][NextSeed]_vars

\* the users with username admin
Admins(us) == {i \in DOMAIN us : us[i].username = "admin"}

Seeded == request'.route = "seedDevAdmin"

=============================================================================
